---- MODULE Spec2Model ----
(***************************************************************************)
(* Command execution and safety engine of kai: the command sanitizer, the  *)
(* safety classifier and validator, the single-shot error fixer, and the   *)
(* process supervisor (execute_command, its timeout watchdog kill_process  *)
(* and terminate_process) driven by the REPL loop of main.py.              *)
(*                                                                         *)
(* Python strings are TLA+ strings; Python's None is the empty tuple and a *)
(* present value x is the one-element tuple <<x>>.                         *)
(***************************************************************************)
EXTENDS Integers, Sequences, FiniteSets, TLC

None == <<>>
Some(x) == <<x>>

(***************************************************************************)
(* String primitives (str methods and the regular expressions the source   *)
(* uses), computed character by character.                                 *)
(***************************************************************************)
\* s[i:i+1] with i counted from 1: the empty string outside the string
CharAt(s, i) == IF i < 1 \/ i > Len(s) THEN "" ELSE SubSeq(s, i, i)

UpperChars == "ABCDEFGHIJKLMNOPQRSTUVWXYZ"
LowerChars == "abcdefghijklmnopqrstuvwxyz"
DigitChars == "0123456789"

\* a in b, for strings
Contains(s, sub) ==
    \E i \in 1..(Len(s) - Len(sub) + 1) : SubSeq(s, i, i + Len(sub) - 1) = sub

StartsWith(s, pre) == Len(pre) <= Len(s) /\ SubSeq(s, 1, Len(pre)) = pre

\* str.count of a single character
Count(s, ch) == Cardinality({i \in 1..Len(s) : CharAt(s, i) = ch})

\* first index >= from at which sub occurs in s, 0 when there is none
Find(s, sub, from) ==
    LET hits == {i \in from..(Len(s) - Len(sub) + 1) : SubSeq(s, i, i + Len(sub) - 1) = sub}
    IN  IF hits = {} THEN 0 ELSE CHOOSE i \in hits : \A j \in hits : i <= j

LowerChar(c) ==
    LET k == Find(UpperChars, c, 1)
    IN  IF k = 0 THEN c ELSE CharAt(LowerChars, k)

RECURSIVE Lower(_)
Lower(s) == IF s = "" THEN "" ELSE LowerChar(CharAt(s, 1)) \o Lower(SubSeq(s, 2, Len(s)))

IsSpace(c) == c \in {" ", "\t", "\n", "\r"}

\* the \w class of re
IsWordChar(c) ==
    c # "" /\ (Contains(UpperChars, c) \/ Contains(LowerChars, c) \/ Contains(DigitChars, c) \/ c = "_")

RECURSIVE LStrip(_)
LStrip(s) == IF s # "" /\ IsSpace(CharAt(s, 1)) THEN LStrip(SubSeq(s, 2, Len(s))) ELSE s

RECURSIVE RStrip(_)
RStrip(s) == IF s # "" /\ IsSpace(CharAt(s, Len(s))) THEN RStrip(SubSeq(s, 1, Len(s) - 1)) ELSE s

Strip(s) == RStrip(LStrip(s))

\* s.split()[0] when s.split() is not empty, "" otherwise
FirstWord(s) ==
    LET t == LStrip(s)
        ends == {i \in 1..Len(t) : IsSpace(CharAt(t, i))}
        stop == IF ends = {} THEN Len(t) + 1 ELSE CHOOSE i \in ends : \A j \in ends : i <= j
    IN  SubSeq(t, 1, stop - 1)

\* str.replace(old, new, 1)
ReplaceFirst(s, old, new) ==
    LET k == Find(s, old, 1)
    IN  IF k = 0 THEN s
        ELSE SubSeq(s, 1, k - 1) \o new \o SubSeq(s, k + Len(old), Len(s))

\* str.replace(old, new): every non-overlapping occurrence, left to right
RECURSIVE ReplaceAll(_, _, _)
ReplaceAll(s, old, new) ==
    LET k == Find(s, old, 1)
    IN  IF k = 0 \/ old = "" THEN s
        ELSE SubSeq(s, 1, k - 1) \o new \o ReplaceAll(SubSeq(s, k + Len(old), Len(s)), old, new)

\* re.sub(r'\bword\b', new, s), scanning from index i
RECURSIVE SubWordFrom(_, _, _, _)
SubWordFrom(s, word, new, i) ==
    IF i > Len(s) - Len(word) + 1 THEN SubSeq(s, i, Len(s))
    ELSE IF /\ SubSeq(s, i, i + Len(word) - 1) = word
            /\ ~IsWordChar(CharAt(s, i - 1))
            /\ ~IsWordChar(CharAt(s, i + Len(word)))
         THEN new \o SubWordFrom(s, word, new, i + Len(word))
         ELSE CharAt(s, i) \o SubWordFrom(s, word, new, i + 1)

SubWord(s, word, new) == SubWordFrom(s, word, new, 1)

\* re.sub(r'\s+', ' ', s)
RECURSIVE CollapseSpaces(_)
CollapseSpaces(s) ==
    IF s = "" THEN ""
    ELSE IF IsSpace(CharAt(s, 1))
         THEN " " \o CollapseSpaces(LStrip(s))
         ELSE CharAt(s, 1) \o CollapseSpaces(SubSeq(s, 2, Len(s)))

(***************************************************************************)
(* utils/command_sanitizer.py                                              *)
(***************************************************************************)
AptRewritten(command) == SubWord(command, "apt", "apt-get")

AptWithFrontend(c) ==
    IF (Contains(c, "apt-get update") \/ Contains(c, "apt-get upgrade"))
       /\ ~Contains(c, "DEBIAN_FRONTEND")
    THEN IF StartsWith(Strip(c), "sudo")
         THEN ReplaceFirst(c, "sudo", "sudo DEBIAN_FRONTEND=noninteractive")
         ELSE "DEBIAN_FRONTEND=noninteractive " \o c
    ELSE c

AptInstallYes(c) ==
    IF Contains(c, "apt-get install") /\ ~Contains(c, " -y")
    THEN ReplaceAll(c, "apt-get install", "apt-get install -y")
    ELSE c

AptUpgradeYes(c) ==
    IF Contains(c, "apt-get upgrade") /\ ~Contains(c, " -y")
    THEN ReplaceAll(c, "apt-get upgrade", "apt-get upgrade -y")
    ELSE c

sanitize_apt_command(command) ==
    AptUpgradeYes(AptInstallYes(AptWithFrontend(AptRewritten(command))))

sanitize_command(command) ==
    IF Contains(command, "apt") THEN sanitize_apt_command(command) ELSE command

(***************************************************************************)
(* utils/safety.py                                                         *)
(***************************************************************************)
LONG_RUNNING_KEYWORDS ==
    << "ping", "find /", "sleep", "dd", "cat /dev", "yes",
       "tail -f", "watch", "while true", "for i in" >>

DANGEROUS_KEYWORDS ==
    << "rm -rf", "rm -fr", ":(){", "mkfs", "shutdown", "reboot",
       "dd if=", "chmod -R 777", "> /dev/sda", "mv / ", "format",
       "fdisk", "parted", "wipefs" >>

MODIFY_KEYWORDS ==
    << "apt install", "yum install", "pacman -S", "brew install",
       "pip install", "npm install", "cargo install" >>

SAFE_COMMANDS ==
    { "ls", "pwd", "echo", "cat", "grep", "find", "which", "whereis",
      "date", "cal", "uptime", "whoami", "hostname", "uname",
      "df", "du", "free", "top", "ps", "history", "man", "help" }

SAFE == "safe"
CAUTION == "caution"
DANGEROUS == "dangerous"
LONG_RUNNING == "long_running"

\* index of the first keyword of the list contained in text, 0 when there is none
FirstKeyword(keywords, text) ==
    LET hits == {k \in 1..Len(keywords) : Contains(text, keywords[k])}
    IN  IF hits = {} THEN 0 ELSE CHOOSE k \in hits : \A j \in hits : k <= j

\* re.search(r'\|\s*sh|\|\s*bash|\|\s*zsh', text)
PipesToShell(text) ==
    \E i \in 1..Len(text) :
        /\ CharAt(text, i) = "|"
        /\ LET rest == LStrip(SubSeq(text, i + 1, Len(text)))
           IN  StartsWith(rest, "sh") \/ StartsWith(rest, "bash") \/ StartsWith(rest, "zsh")

\* the (safety_level, warning_message) pair, the warning as None or Some(text)
check_command_safety(command) ==
    LET command_lower == Strip(Lower(command))
        first_word == FirstWord(command_lower)
        d == FirstKeyword(DANGEROUS_KEYWORDS, command_lower)
        l == FirstKeyword(LONG_RUNNING_KEYWORDS, command_lower)
        m == FirstKeyword(MODIFY_KEYWORDS, command_lower)
    IN  IF first_word \in SAFE_COMMANDS THEN <<SAFE, None>>
        ELSE IF d # 0 THEN
            <<DANGEROUS, Some("DANGER: This command contains '" \o DANGEROUS_KEYWORDS[d]
                              \o "' which could be destructive!")>>
        ELSE IF l # 0 THEN
            <<LONG_RUNNING, Some("This command might take a long time (contains '"
                                 \o LONG_RUNNING_KEYWORDS[l] \o "')")>>
        ELSE IF m # 0 THEN
            <<CAUTION, Some("This command will modify your system ('"
                            \o MODIFY_KEYWORDS[m] \o "')")>>
        ELSE IF PipesToShell(command_lower) THEN
            <<DANGEROUS, Some("DANGER: Piping to shell can be dangerous!")>>
        ELSE IF StartsWith(command_lower, "sudo") THEN
            <<CAUTION, Some("This command requires elevated privileges")>>
        ELSE <<SAFE, None>>

\* a validation that stops after the quotes
validate_command_quotes_only(command) ==
    IF command = "" \/ Strip(command) = "" THEN <<FALSE, Some("Empty command")>>
    ELSE IF Count(command, "'") % 2 # 0 THEN <<FALSE, Some("Unmatched single quote")>>
    ELSE IF Count(command, "\"") % 2 # 0 THEN <<FALSE, Some("Unmatched double quote")>>
    ELSE <<TRUE, None>>

\* the (is_valid, error_message) pair
validate_command(command) ==
    IF command = "" \/ Strip(command) = "" THEN <<FALSE, Some("Empty command")>>
    ELSE IF Count(command, "'") % 2 # 0 THEN <<FALSE, Some("Unmatched single quote")>>
    ELSE IF Count(command, "\"") % 2 # 0 THEN <<FALSE, Some("Unmatched double quote")>>
    ELSE IF Count(command, "(") # Count(command, ")") THEN <<FALSE, Some("Unmatched parentheses")>>
    ELSE IF Count(command, "[") # Count(command, "]") THEN <<FALSE, Some("Unmatched brackets")>>
    ELSE IF Count(command, "{") # Count(command, "}") THEN <<FALSE, Some("Unmatched braces")>>
    ELSE <<TRUE, None>>

INTERACTIVE_COMMANDS ==
    { "nano", "vim", "vi", "emacs", "less", "more", "top", "htop",
      "man", "ssh", "ftp", "telnet", "mysql", "psql", "mongo" }

is_interactive_command(command) == FirstWord(Strip(command)) \in INTERACTIVE_COMMANDS

\* utils.safety.sanitize_command, the one ask_ai applies to the model's reply
safety_sanitize_command(command) == CollapseSpaces(Strip(command))

(***************************************************************************)
(* core/config.py and utils/command_classifier.py                          *)
(***************************************************************************)
DEFAULT_CONFIG ==
    [timeout_seconds |-> 300, short_timeout |-> 30, long_timeout |-> 1800, dry_run |-> FALSE]

LONG_RUNNING_COMMANDS ==
    { "apt", "apt-get", "yum", "dnf", "pacman", "zypper", "brew",
      "update", "upgrade", "dist-upgrade", "full-upgrade",
      "make", "cmake", "gcc", "g++", "cargo", "npm", "yarn", "pip",
      "mvn", "gradle", "ant", "bazel",
      "wget", "curl", "git clone", "rsync", "scp",
      "mysqldump", "pg_dump", "mongodump",
      "tar", "zip", "unzip", "gzip", "bzip2", "7z",
      "docker build", "docker pull", "docker-compose",
      "find", "locate", "updatedb", "clamscan" }

LONG_OPERATION_KEYWORDS ==
    { "install", "update", "upgrade", "download", "clone", "build",
      "compile", "backup", "restore", "scan", "search", "index",
      "compress", "decompress", "extract", "sync", "copy", "move",
      "convert", "encode", "decode", "render", "process" }

QUICK_COMMANDS ==
    { "ls", "cd", "pwd", "echo", "cat", "head", "tail", "wc",
      "date", "whoami", "hostname", "uname", "which", "type",
      "alias", "export", "env", "printenv", "id", "groups",
      "df", "du", "free", "uptime", "ps", "kill", "killall",
      "mkdir", "rmdir", "touch", "rm", "mv", "cp", "ln",
      "chmod", "chown", "chgrp", "grep", "sed", "awk", "cut",
      "sort", "uniq", "diff", "cmp", "file", "stat" }

\* the (classification, timeout_seconds) pair under the configuration cfg
classify_command_timeout(command, cfg) ==
    LET command_lower == Lower(command)
        base_cmd_lower == Lower(FirstWord(command))
    IN  IF \E long_cmd \in LONG_RUNNING_COMMANDS : Contains(command_lower, long_cmd)
        THEN <<"long", cfg.long_timeout>>
        ELSE IF \E keyword \in LONG_OPERATION_KEYWORDS : Contains(command_lower, keyword)
        THEN <<"long", cfg.long_timeout>>
        ELSE IF base_cmd_lower \in QUICK_COMMANDS
        THEN <<"quick", cfg.short_timeout>>
        ELSE IF Contains(command, "|") \/ Contains(command, "&&") \/ Contains(command, ";")
        THEN <<"normal", cfg.timeout_seconds>>
        ELSE <<"normal", cfg.timeout_seconds>>

(***************************************************************************)
(* ai/error_fixer.py                                                       *)
(***************************************************************************)
ALTERNATIVES ==
    { <<"pytohn", "python">>, <<"pyhton", "python">>, <<"gti", "git">>,
      <<"claer", "clear">>, <<"cd..", "cd ..">>, <<"sl", "ls">>,
      <<"grpe", "grep">>, <<"mroe", "more">>, <<"les", "less">> }

\* re.search(r"No module named '([^']+)'", text): Some(group 1) or None
ModuleMatch(text) ==
    LET pre == "No module named '"
        ok(i) == /\ SubSeq(text, i, i + Len(pre) - 1) = pre
                 /\ CharAt(text, i + Len(pre)) \notin {"", "'"}
                 /\ Find(text, "'", i + Len(pre)) # 0
        hits == {i \in 1..(Len(text) - Len(pre) + 1) : ok(i)}
    IN  IF hits = {} THEN None
        ELSE LET i == CHOOSE h \in hits : \A j \in hits : h <= j
                 b == i + Len(pre)
             IN  Some(SubSeq(text, b, Find(text, "'", b) - 1))

\* re.search(r':(\d+)', text): Some(group 1) or None
PortMatch(text) ==
    LET isDigit(c) == c # "" /\ Contains(DigitChars, c)
        hits == {i \in 1..Len(text) : CharAt(text, i) = ":" /\ isDigit(CharAt(text, i + 1))}
    IN  IF hits = {} THEN None
        ELSE LET i == CHOOSE h \in hits : \A j \in hits : h <= j
                 stops == {k \in (i + 1)..(Len(text) + 1) : ~isDigit(CharAt(text, k))}
                 e == CHOOSE k \in stops : \A j \in stops : k <= j
             IN  Some(SubSeq(text, i + 1, e - 1))

\* None, or Some(<<fixed_command, explanation>>) where fixed_command is itself
\* None or Some(command): the Optional[Tuple[str, str]] of the source, whose
\* diagnosis-only returns are the tuple (None, explanation).
\* The command is not blank (command.split()[0] is taken without a check).
detect_and_fix_error(command, error_output, exit_code) ==
    LET err == Lower(error_output)
        cmd_name == FirstWord(command)
        alt == {a \in ALTERNATIVES : a[1] = cmd_name}
        module == ModuleMatch(error_output)
        port == PortMatch(error_output)
    IN  IF Contains(error_output, "Syntax error") /\ Contains(error_output, "&&")
           /\ Contains(command, "&&")
        THEN Some(<<Some("bash -c '" \o command \o "'"),
                    "Fixed: Shell syntax error. The command uses '&&' which requires bash, not sh.">>)
        ELSE IF (Contains(err, "command not found") \/ exit_code = 127) /\ alt # {}
        THEN LET a == CHOOSE x \in alt : TRUE
             IN  Some(<<Some(ReplaceFirst(command, cmd_name, a[2])),
                        "Fixed: Typo detected. Changed '" \o cmd_name \o "' to '" \o a[2] \o "'.">>)
        ELSE IF (Contains(err, "permission denied") \/ exit_code = 126)
                /\ ~StartsWith(command, "sudo ")
        THEN Some(<<Some("sudo " \o command),
                    "Fixed: Permission denied. Added 'sudo' to run with elevated privileges.">>)
        ELSE IF Contains(err, "no such file or directory") /\ Contains(command, "/")
        THEN Some(<<None, "Error: File or directory not found. Check the path and try again.">>)
        ELSE IF Contains(err, "not a git repository")
                /\ StartsWith(command, "git ") /\ ~StartsWith(command, "git init")
        THEN Some(<<Some("git init && " \o command),
                    "Fixed: Not a git repository. Running 'git init' first.">>)
        ELSE IF Contains(err, "address already in use") /\ port # None
        THEN Some(<<None, "Error: Port " \o port[1]
                          \o " is already in use. Kill the process or use a different port.">>)
        ELSE IF Contains(error_output, "No module named") /\ module # None
        THEN Some(<<Some("pip install " \o module[1] \o " && " \o command),
                    "Fixed: Module '" \o module[1] \o "' not found. Installing it first.">>)
        ELSE IF /\ Contains(err, "unmatched")
                /\ (Contains(err, "quote") \/ Contains(error_output, "'")
                    \/ Contains(error_output, "\""))
                /\ Count(command, "'") % 2 # 0
        THEN Some(<<Some(command \o "'"), "Fixed: Added missing single quote at the end.">>)
        ELSE IF /\ Contains(err, "unmatched")
                /\ (Contains(err, "quote") \/ Contains(error_output, "'")
                    \/ Contains(error_output, "\""))
                /\ Count(command, "\"") % 2 # 0
        THEN Some(<<Some(command \o "\""), "Fixed: Added missing double quote at the end.">>)
        ELSE IF Contains(err, "network is unreachable") \/ Contains(err, "could not resolve host")
        THEN Some(<<None, "Error: Network issue detected. Check your internet connection.">>)
        ELSE IF Contains(err, "no space left on device")
        THEN Some(<<None, "Error: Disk is full. Free up some space and try again.">>)
        ELSE None

(***************************************************************************)
(* utils/error_recovery.py                                                 *)
(***************************************************************************)
\* re: "a.*b" occurs in text (b after a, no newline in between)
SameLineAfter(text, a, b) ==
    \E i \in 1..(Len(text) - Len(a) + 1) :
        /\ SubSeq(text, i, i + Len(a) - 1) = a
        /\ \E j \in (i + Len(a))..(Len(text) - Len(b) + 1) :
              /\ SubSeq(text, j, j + Len(b) - 1) = b
              /\ \A k \in (i + Len(a))..(j - 1) : CharAt(text, k) # "\n"

\* re: "a.*['\"]?(\S+)['\"]?" occurs in text: a, and on the same line after it
\* a character that is no whitespace
SameLineWordAfter(text, a) ==
    \E i \in 1..(Len(text) - Len(a) + 1) :
        /\ SubSeq(text, i, i + Len(a) - 1) = a
        /\ \E j \in (i + Len(a))..Len(text) :
              /\ ~IsSpace(CharAt(text, j))
              /\ \A k \in (i + Len(a))..(j - 1) : CharAt(text, k) # "\n"

\* the error types of ERROR_PATTERNS, in list order
ERROR_TYPES ==
    << "file_not_found", "permission_denied", "command_not_found", "port_in_use",
       "disk_full", "connection_failed", "module_not_found", "syntax_error",
       "access_denied", "git_error" >>

\* ErrorPattern.matches of the pattern with this error type (re.IGNORECASE)
PatternMatches(error_type, error_text) ==
    LET t == Lower(error_text)
    IN  CASE error_type = "file_not_found" ->
                 \E a \in {"no such file or directory", "cannot stat", "not found"} :
                     SameLineWordAfter(t, a)
          [] error_type = "permission_denied" -> Contains(t, "permission denied")
          [] error_type = "command_not_found" -> Contains(t, "command not found")
          [] error_type = "port_in_use" ->
                 SameLineAfter(t, "port", "already in use") \/ Contains(t, "address already in use")
          [] error_type = "disk_full" -> Contains(t, "no space left on device")
          [] error_type = "connection_failed" ->
                 Contains(t, "connection refused") \/ Contains(t, "connection timed out")
          [] error_type = "module_not_found" ->
                 \/ SameLineAfter(t, "module", "not found")
                 \/ SameLineAfter(t, "package", "not found")
                 \/ Contains(t, "no module named")
          [] error_type = "syntax_error" -> Contains(t, "syntax error") \/ Contains(t, "invalid syntax")
          [] error_type = "access_denied" -> Contains(t, "access denied") \/ Contains(t, "forbidden")
          [] error_type = "git_error" ->
                 SameLineAfter(t, "git", "failed") \/ SameLineAfter(t, "fatal", "git")

\* ErrorPattern.get_fixes of the pattern with this error type
PatternFixes(error_type) ==
    CASE error_type = "file_not_found" ->
             << "Check if the file path is correct (case-sensitive)",
                "Use 'find' or 'locate' to find the file",
                "Verify the file exists: ls -la {path}",
                "Check current directory: pwd" >>
      [] error_type = "permission_denied" ->
             << "Try with sudo: sudo {command}",
                "Check file permissions: ls -l {file}",
                "Change permissions: chmod +x {file}",
                "Check ownership: ls -l {file}" >>
      [] error_type = "command_not_found" ->
             << "Install the package: sudo apt install {command}",
                "Check if command is in PATH: which {command}",
                "Try full path: /usr/bin/{command}",
                "Search for package: apt search {command}" >>
      [] error_type = "port_in_use" ->
             << "Find process using port: lsof -i :{port}",
                "Kill process: kill -9 $(lsof -t -i:{port})",
                "Use different port",
                "Check running services: netstat -tulpn" >>
      [] error_type = "disk_full" ->
             << "Check disk usage: df -h",
                "Find large files: du -sh * | sort -h",
                "Clean package cache: sudo apt clean",
                "Remove old logs: sudo journalctl --vacuum-time=7d" >>
      [] error_type = "connection_failed" ->
             << "Check if service is running: systemctl status {service}",
                "Verify network connectivity: ping {host}",
                "Check firewall rules: sudo ufw status",
                "Test port: telnet {host} {port}" >>
      [] error_type = "module_not_found" ->
             << "Install with pip: pip install {module}",
                "Check if in requirements.txt",
                "Activate virtual environment: source venv/bin/activate",
                "Check Python path: python -c 'import sys; print(sys.path)'" >>
      [] error_type = "syntax_error" ->
             << "Check for typos in command",
                "Verify quote matching",
                "Check command syntax: man {command}",
                "Try --help flag: {command} --help" >>
      [] error_type = "access_denied" ->
             << "Check credentials",
                "Verify API key/token",
                "Check user permissions",
                "Try with elevated privileges" >>
      [] error_type = "git_error" ->
             << "Check git status: git status",
                "Pull latest changes: git pull",
                "Check remote: git remote -v",
                "Reset if needed: git reset --hard" >>

\* re.search(r"['\"]([^'\"]+)['\"]", error_text): group 1 of the leftmost match
FileMention(error_text) ==
    LET Quote(k) == CharAt(error_text, k) \in {"'", "\""}
        starts == { i \in 1..Len(error_text) :
                      /\ Quote(i)
                      /\ i + 1 <= Len(error_text) /\ ~Quote(i + 1)
                      /\ \E j \in (i + 2)..Len(error_text) : Quote(j) }
    IN  IF starts = {} THEN None
        ELSE LET i == CHOOSE a \in starts : \A b \in starts : a <= b
                 j == CHOOSE a \in (i + 2)..Len(error_text) :
                          Quote(a) /\ \A b \in (i + 2)..(a - 1) : ~Quote(b)
             IN  Some(SubSeq(error_text, i + 1, j - 1))

\* re.search(r"port\s+(\d+)", error_text): group 1 of the leftmost match
PortMention(error_text) ==
    LET n == Len(error_text)
        Digit(k) == k <= n /\ Contains(DigitChars, CharAt(error_text, k))
        \* the first digit of a match that starts with "port" at i
        FirstDigit(i) == { d \in (i + 5)..n :
                             /\ Digit(d)
                             /\ \A k \in (i + 4)..(d - 1) : IsSpace(CharAt(error_text, k)) }
        starts == { i \in 1..(n - 3) : SubSeq(error_text, i, i + 3) = "port" /\ FirstDigit(i) # {} }
    IN  IF starts = {} THEN None
        ELSE LET i == CHOOSE a \in starts : \A b \in starts : a <= b
                 d == CHOOSE a \in FirstDigit(i) : TRUE
                 e == CHOOSE a \in d..n : (\A k \in d..a : Digit(k)) /\ ~Digit(a + 1)
             IN  Some(SubSeq(error_text, d, e))

\* cmd_parts[0] if cmd_parts else ""
BaseCommand(command) == FirstWord(command)

_format_suggestions(suggestions, command, error_text) ==
    LET base_command == BaseCommand(command)
        file_match == FileMention(error_text)
        file_path == IF file_match # None THEN file_match[1] ELSE "file"
        port_match == PortMention(error_text)
        port == IF port_match # None THEN port_match[1] ELSE "8080"
        Format(suggestion) ==
            ReplaceAll(ReplaceAll(ReplaceAll(ReplaceAll(ReplaceAll(ReplaceAll(ReplaceAll(
                suggestion, "{command}", base_command), "{file}", file_path),
                "{path}", file_path), "{port}", port), "{service}", base_command),
                "{host}", "localhost"), "{module}", base_command)
    IN  [ k \in 1..Len(suggestions) |-> Format(suggestions[k]) ]

\* command is not blank here (command.split()[0] raises IndexError otherwise)
_get_generic_suggestions(command, error_text) ==
    << "Check the command syntax: " \o FirstWord(command) \o " --help",
       "Review the error message carefully",
       "Search for the error online",
       "Check manual: man " \o FirstWord(command) >>

_determine_severity(exit_code, error_type) ==
    IF error_type \in {"disk_full", "permission_denied"} THEN "high"
    ELSE IF error_type \in {"file_not_found", "command_not_found"} THEN "medium"
    ELSE IF exit_code > 100 THEN "high"
    ELSE "low"

\* the dict returned by ErrorAnalyzer.analyze_error (description and ai_prompt left out)
analyze_error(command, exit_code, stderr, stdout) ==
    LET error_text == stderr \o " " \o stdout
        hits == { k \in 1..Len(ERROR_TYPES) : PatternMatches(ERROR_TYPES[k], error_text) }
    IN  IF hits # {}
        THEN LET k == CHOOSE a \in hits : \A b \in hits : a <= b
             IN  [error_type |-> ERROR_TYPES[k],
                  suggestions |-> _format_suggestions(PatternFixes(ERROR_TYPES[k]), command, error_text),
                  severity |-> _determine_severity(exit_code, ERROR_TYPES[k])]
        ELSE [error_type |-> "unknown",
              suggestions |-> _get_generic_suggestions(command, error_text),
              severity |-> "medium"]

\* s[:n]
Prefix(s, n) == IF Len(s) <= n THEN s ELSE SubSeq(s, 1, n)

\* a log that keeps its oldest n records
OldestN(s, n) == IF Len(s) <= n THEN s ELSE SubSeq(s, 1, n)

\* s[-n:]
LastN(s, n) == IF Len(s) <= n THEN s ELSE SubSeq(s, Len(s) - n + 1, Len(s))

(***************************************************************************)
(* Bounds of the model and the environment's inputs.                       *)
(***************************************************************************)
\* child processes spawned along one behaviour
MaxProcs == 2
\* the REPL loop takes a request while fewer children than this have been spawned
MaxRequests == 1

\* replies of the language model (the text after RUN:)
REPLIES == { "echo 'hello", "python app.py", "rm -rf /tmp/x", "vim notes" }

\* how a child that exits by itself ends: its exit code and what it wrote
OUTCOMES ==
    { [rc |-> 0, out |-> "hi", err |-> ""],
      [rc |-> 1, out |-> "",   err |-> "ModuleNotFoundError: No module named 'foo'"],
      [rc |-> 1, out |-> "",   err |-> "cat: /x/y: No such file or directory"],
      [rc |-> 2, out |-> "",   err |-> "failed"] }

\* answers to a yes/no prompt: yes, no, or just Enter (the default)
ANSWERS == {"y", "n", ""}

SIGTERM == 15
SIGKILL == 9

(***************************************************************************)
(* State.                                                                  *)
(***************************************************************************)
VARIABLES
    config,           \* core.config: the configuration store
    current_process,  \* executor.current_process: 0 is None, else a child id
    process_timer,    \* executor.process_timer: 0 is None, else a timer id
    procs,            \* the child processes spawned so far, by id
    timers,           \* the threading.Timer objects created so far, by id
    frames,           \* the stack of execute_command activations of the main thread
    mainpc,           \* position of the main thread (REPL loop or top activation)
    req,              \* the response the REPL loop is handling
    result,           \* what the last top-level execute_command call returned
    term,             \* position of a terminate_process call made outside the run loop
    events,           \* what has happened since the REPL loop took the current request
    proposals,        \* fix proposals shown since the REPL loop took the current request
    tx,               \* the pure-function harness: an input text and what was computed from it
    wf                \* utils.workflows: a workflow and the state of its execution

vars == << config, current_process, process_timer, procs, timers, frames, mainpc,
           req, result, term, events, proposals, tx, wf >>

supervisor_vars == << config, current_process, process_timer, procs, timers, frames,
                      mainpc, req, result, term, events, proposals >>

NoResult == [kind |-> "none", success |-> FALSE, output |-> None]
Value(success, output) == [kind |-> "value", success |-> success, output |-> output]
Raised(what) == [kind |-> "raise", success |-> FALSE, output |-> Some(what)]

NoRequest ==
    [command |-> "", warning |-> None, safety_level |-> SAFE, dry_run |-> FALSE, via |-> "run"]
NoText == [input |-> "", sanitized |-> <<>>, safety |-> None, timeouts |-> <<>>,
           valid |-> None, fixes |-> <<>>, loaded |-> 0, error_history |-> <<>>, error_history_file |-> <<>>,
           analysis |-> None]

\* no workflow is being executed
NoWorkflow ==
    [steps |-> <<>>, dry_run |-> FALSE, next |-> 1, previous_success |-> TRUE,
     results |-> <<>>, success |-> TRUE, returned |-> FALSE, run_count |-> 0]

Top == frames[Len(frames)]
SetTop(f) == [frames EXCEPT ![Len(frames)] = f]
\* positions inside the try block at which a child has been started
InTry == {"irun", "arm", "stream", "read", "wait", "stderr", "rc", "askfix"}

Alive(p) == procs[p].state = "running"

\* os.kill(pid, sig) by sender, a pair <<who, timer id or 0>>: a live child dies of SIGKILL, and of SIGTERM
\* unless it ignores or handles it (dies says which)
Signalled(ps, p, sig, sender, dies) ==
    IF ps[p].state # "running" THEN ps
    ELSE [ps EXCEPT ![p] =
            [@ EXCEPT !.signals = @ \cup {<<sender, sig>>},
                      !.state = IF sig = SIGKILL \/ dies THEN "exited" ELSE "running",
                      !.blocked = IF sig = SIGKILL \/ dies THEN FALSE ELSE @,
                      !.rc = IF sig = SIGKILL \/ dies THEN 0 - sig ELSE @]]

\* "\n".join(lines)
RECURSIVE Join(_)
Join(lines) ==
    IF lines = <<>> THEN ""
    ELSE IF Len(lines) = 1 THEN lines[1]
    ELSE lines[1] \o "\n" \o Join(Tail(lines))

SupervisorInit ==
    /\ config = DEFAULT_CONFIG
    /\ current_process = 0
    /\ process_timer = 0
    /\ procs = <<>>
    /\ timers = <<>>
    /\ frames = <<>>
    /\ mainpc = "idle"
    /\ req = NoRequest
    /\ result = NoResult
    /\ term = "idle"
    /\ events = {}
    /\ proposals = 0

Init == SupervisorInit /\ tx = NoText /\ wf = NoWorkflow

(***************************************************************************)
(* main.py: the REPL loop around execute_command.                          *)
(***************************************************************************)
\* the activation of a caller that drops its dry_run argument
NewFrameWithoutDryRun(raw, dry_run, interactive, confirm) ==
    [raw |-> raw, dry_run |-> FALSE, interactive |-> interactive, confirm |-> confirm,
     cmd |-> "", timeout |-> 0, child |-> 0, timer |-> 0,
     output_lines |-> <<>>, stderr_output |-> "", fix |-> None, exc |-> "",
     ret |-> NoResult]

NewFrame(raw, dry_run, interactive, confirm) ==
    [raw |-> raw, dry_run |-> dry_run, interactive |-> interactive, confirm |-> confirm,
     cmd |-> "", timeout |-> 0, child |-> 0, timer |-> 0,
     output_lines |-> <<>>, stderr_output |-> "", fix |-> None, exc |-> "",
     ret |-> NoResult]

\* success, output = execute_command(command, dry_run=dry_run, interactive=...)
Dispatch(command, confirm) ==
    /\ frames' = << NewFrame(Some(command), config.dry_run,
                             is_interactive_command(command) /\ ~config.dry_run, confirm) >>
    /\ mainpc' = "enter"

\* return ret from the top activation: to the REPL loop, or into the
\* "return execute_command(...)" of the activation below, whose finally runs next
ReturnTo(ret) ==
    IF Len(frames) = 1
    THEN /\ frames' = <<>>
         /\ mainpc' = "post"
         /\ result' = ret
    ELSE /\ frames' = [SubSeq(frames, 1, Len(frames) - 1) EXCEPT ![Len(frames) - 1].ret = ret]
         /\ mainpc' = "fin_check"
         /\ UNCHANGED result

\* an exception leaves the top activation: the REPL loop's "except Exception"
\* reports it and continues, the try of the activation below catches it
Escape(what) ==
    IF Len(frames) = 1
    THEN /\ frames' = <<>>
         /\ mainpc' = "idle"
         /\ result' = Raised(what)
    ELSE /\ frames' = [SubSeq(frames, 1, Len(frames) - 1) EXCEPT ![Len(frames) - 1].exc = what]
         /\ mainpc' = "except"
         /\ UNCHANGED result

\* a child that has exited and that no activation refers to any more
Reaped ==
    [cmd |-> "", mode |-> "captured", state |-> "exited", rc |-> 0, out |-> "", err |-> "",
     signals |-> {}, blocked |-> FALSE]

\* response = ask_ai(query): the reply is sanitized and classified; a warning
\* leads to a confirmation prompt, no warning straight to execution
Ask(reply) ==
    /\ mainpc = "idle"
    /\ Len(procs) < MaxRequests
    /\ LET command == safety_sanitize_command(reply)
           sw == check_command_safety(command)
       IN  /\ req' = [command |-> command, warning |-> sw[2], safety_level |-> sw[1],
                      dry_run |-> config.dry_run, via |-> "run"]
           /\ IF sw[2] # None
              THEN mainpc' = "gate" /\ UNCHANGED frames
              ELSE Dispatch(command, "none")
    /\ events' = {}
    /\ proposals' = 0
    /\ result' = NoResult
    /\ UNCHANGED << config, current_process, process_timer, procs, timers, term, tx, wf >>

\* a "!" query: handle_bang_commands finds a command in the stored history,
\* ask_ai("run: " + cmd) answers with a command, and execute_command(command)
\* runs it with the default dry_run=False, interactive=False
Bang(reply) ==
    /\ mainpc = "idle"
    /\ Len(procs) < MaxRequests
    /\ LET command == safety_sanitize_command(reply)
           sw == check_command_safety(command)
       IN  /\ req' = [command |-> command, warning |-> sw[2], safety_level |-> sw[1],
                      dry_run |-> config.dry_run, via |-> "bang"]
           /\ frames' = << NewFrame(Some(command), FALSE, FALSE, "none") >>
           /\ mainpc' = "enter"
    /\ events' = {}
    /\ proposals' = 0
    /\ result' = NoResult
    /\ UNCHANGED << config, current_process, process_timer, procs, timers, term, tx, wf >>

\* "dry-run on" / "dry-run off"
SetDryRun(b) ==
    /\ mainpc = "idle"
    /\ config.dry_run # b
    /\ config' = [config EXCEPT !.dry_run = b]
    /\ UNCHANGED << current_process, process_timer, procs, timers, frames, mainpc, req,
                    result, term, events, proposals, tx, wf >>

\* confirm("Are you SURE you want to run this?", default=False) for a dangerous
\* command, confirm("Proceed?", default=True) for any other warning
Gate(answer) ==
    /\ mainpc = "gate"
    /\ LET proceed == IF req.safety_level = DANGEROUS THEN answer = "y"
                      ELSE answer \in {"y", ""}
       IN  IF proceed THEN Dispatch(req.command, answer)
           ELSE mainpc' = "idle" /\ UNCHANGED frames
    /\ UNCHANGED << config, current_process, process_timer, procs, timers, req, result,
                    term, events, proposals, tx, wf >>

\* after the call: history, and in the run branch of the loop its own error
\* analysis of a failure (the "!" branch only adds to the history)
Post ==
    /\ mainpc = "post"
    /\ mainpc' = "idle"
    /\ events' = IF req.via = "run" /\ ~req.dry_run /\ ~result.success
                 THEN events \cup {"loop_analysis"}
                 ELSE events
    /\ UNCHANGED << config, current_process, process_timer, procs, timers, frames, req,
                    result, term, proposals, tx, wf >>

(***************************************************************************)
(* core/executor.py: execute_command, one action per statement that reads  *)
(* or writes the shared globals or blocks.                                 *)
(***************************************************************************)
\* a timer that was cancelled, or whose thread has ended
Spent(how) == [state |-> how, timeout |-> 0, child |-> 0, reported |-> 0]

\* the record of a child, dropped once it has exited and its activation is over
Forget(ps, p) == IF p = 0 \/ ps[p].state = "running" THEN ps ELSE [ps EXCEPT ![p] = Reaped]

NewProc(cmd, mode) ==
    [cmd |-> cmd, mode |-> mode, state |-> "running", rc |-> 0, out |-> "", err |-> "",
     signals |-> {}, blocked |-> FALSE]

\* lines 43-79: sanitize, classify, and the dry-run return (before the try)
Enter ==
    /\ mainpc = "enter"
    /\ IF Top.raw = None
       THEN Escape("TypeError: argument of type 'NoneType' is not iterable")
       ELSE LET cmd == sanitize_command(Top.raw[1])
                ct == classify_command_timeout(cmd, config)
            IN  IF Top.dry_run
                THEN ReturnTo(Value(TRUE, None))
                ELSE /\ frames' = SetTop([Top EXCEPT !.cmd = cmd, !.timeout = ct[2]])
                     /\ mainpc' = "spawn"
                     /\ UNCHANGED result
    /\ UNCHANGED << config, current_process, process_timer, procs, timers, req, term,
                    events, proposals, tx, wf >>

\* lines 91-97 (subprocess.run) and 101-109 (subprocess.Popen)
Spawn ==
    /\ mainpc = "spawn"
    /\ Len(procs) < MaxProcs
    /\ LET id == Len(procs) + 1
       IN  IF Top.interactive
           THEN /\ procs' = Append(procs, NewProc(Top.cmd, "interactive"))
                /\ frames' = SetTop([Top EXCEPT !.child = id])
                /\ mainpc' = "irun"
                /\ UNCHANGED current_process
           ELSE /\ procs' = Append(procs, NewProc(Top.cmd, "captured"))
                /\ frames' = SetTop([Top EXCEPT !.child = id])
                /\ current_process' = id
                /\ mainpc' = "arm"
    /\ UNCHANGED << config, process_timer, timers, req, result, term, events, proposals, tx, wf >>

\* the shell cannot be started: Popen / run raises OSError
SpawnFails ==
    /\ mainpc = "spawn"
    /\ frames' = SetTop([Top EXCEPT !.exc = "OSError: shell not found"])
    /\ mainpc' = "except"
    /\ UNCHANGED << config, current_process, process_timer, procs, timers, req, result,
                    term, events, proposals, tx, wf >>

\* line 98: subprocess.run returned
InteractiveDone ==
    /\ mainpc = "irun"
    /\ ~Alive(Top.child)
    /\ frames' = SetTop([Top EXCEPT !.ret = Value(procs[Top.child].rc = 0, None)])
    /\ mainpc' = "fin_check"
    /\ UNCHANGED << config, current_process, process_timer, procs, timers, req, result,
                    term, events, proposals, tx, wf >>

\* lines 112-113: process_timer = threading.Timer(timeout_seconds, kill_process)
Arm ==
    /\ mainpc = "arm"
    /\ LET id == Len(timers) + 1
       IN  /\ timers' = Append(timers, [state |-> "pending", timeout |-> Top.timeout,
                                        child |-> Top.child, reported |-> 0])
           /\ process_timer' = id
           /\ frames' = SetTop([Top EXCEPT !.timer = id])
    /\ mainpc' = "stream"
    /\ UNCHANGED << config, current_process, procs, req, result, term, events, proposals, tx, wf >>

\* a statement of the try dereferences current_process after kill_process or
\* terminate_process cleared it: AttributeError, caught by "except Exception"
DerefFails ==
    /\ frames' = SetTop([Top EXCEPT !.exc = "AttributeError: 'NoneType' object has no attribute"])
    /\ mainpc' = "except"
    /\ UNCHANGED procs

\* lines 116-117: current_process.stdout is taken and iterated
StreamBegin ==
    /\ mainpc = "stream"
    /\ IF current_process = 0 THEN DerefFails
       ELSE mainpc' = "read" /\ UNCHANGED << frames, procs >>
    /\ UNCHANGED << config, current_process, process_timer, timers, req, result,
                    term, events, proposals, tx, wf >>

\* lines 117-120: the loop over the child's stdout ends at end-of-file
ReadEOF ==
    /\ mainpc = "read"
    /\ ~Alive(Top.child)
    /\ LET out == procs[Top.child].out
       IN  frames' = SetTop([Top EXCEPT !.output_lines = IF out = "" THEN <<>> ELSE <<out>>])
    /\ procs' = [procs EXCEPT ![Top.child].out = ""]
    /\ mainpc' = "wait"
    /\ UNCHANGED << config, current_process, process_timer, timers, req, result,
                    term, events, proposals, tx, wf >>

\* line 123: current_process.wait()
Wait ==
    /\ mainpc = "wait"
    /\ IF current_process = 0 THEN DerefFails
       ELSE /\ ~Alive(current_process)
            /\ mainpc' = "stderr"
            /\ UNCHANGED << frames, procs >>
    /\ UNCHANGED << config, current_process, process_timer, timers, req, result,
                    term, events, proposals, tx, wf >>

\* lines 126-130: stderr is read and appended to the captured lines
ReadStderr ==
    /\ mainpc = "stderr"
    /\ IF current_process = 0 THEN DerefFails
       ELSE LET err == procs[current_process].err
            IN  /\ frames' = SetTop([Top EXCEPT
                        !.stderr_output = err,
                        !.output_lines = IF err = "" THEN @ ELSE Append(@, "ERROR: " \o err)])
                /\ procs' = [procs EXCEPT ![current_process].err = ""]
                /\ mainpc' = "rc"
    /\ UNCHANGED << config, current_process, process_timer, timers, req, result,
                    term, events, proposals, tx, wf >>

\* lines 133-175: the return code; on failure detect_and_fix_error, and either
\* the fix panel (then the prompt) or the error analysis
CheckReturnCode ==
    /\ mainpc = "rc"
    /\ IF current_process = 0 THEN DerefFails /\ UNCHANGED << events, proposals >>
       ELSE LET return_code == procs[current_process].rc
                fix_result == detect_and_fix_error(Top.cmd, Top.stderr_output, return_code)
            IN  IF return_code = 0
                THEN /\ frames' = SetTop([Top EXCEPT !.ret = Value(TRUE, Some(Join(Top.output_lines)))])
                     /\ mainpc' = "fin_check"
                     /\ UNCHANGED << events, proposals >>
                ELSE IF fix_result # None
                THEN /\ frames' = SetTop([Top EXCEPT !.fix = fix_result])
                     /\ mainpc' = "askfix"
                     /\ proposals' = proposals + 1
                     /\ UNCHANGED events
                ELSE /\ frames' = SetTop([Top EXCEPT !.ret = Value(FALSE, Some(Join(Top.output_lines)))])
                     /\ mainpc' = "fin_check"
                     /\ events' = events \cup {"analysis"}
                     /\ UNCHANGED proposals
    /\ UNCHANGED << config, current_process, process_timer, procs, timers, req, result,
                    term, tx, wf >>

\* Confirm.ask("Run the fixed command?", default=True)
FixAccepted(answer) == answer \in {"y", ""}

\* lines 158-160 and 175: the prompt, then the nested call or the failure return
AnswerFix(answer) ==
    /\ mainpc = "askfix"
    /\ IF FixAccepted(answer)
       THEN /\ Top.fix[1][1] = None \/ Len(procs) < MaxProcs
            /\ frames' = Append(frames, NewFrame(Top.fix[1][1], FALSE, Top.interactive, answer))
            /\ mainpc' = "enter"
       ELSE /\ frames' = SetTop([Top EXCEPT !.ret = Value(FALSE, Some(Join(Top.output_lines)))])
            /\ mainpc' = "fin_check"
    /\ UNCHANGED << config, current_process, process_timer, procs, timers, req, result,
                    term, events, proposals, tx, wf >>

\* lines 177-184: Ctrl-C once the command has been started. subprocess.run
\* kills its child before it re-raises; the handler sends SIGTERM to
\* current_process if set.
Interrupt(dies) ==
    /\ mainpc \in InTry
    /\ LET ps == IF mainpc = "irun" THEN Signalled(procs, Top.child, SIGKILL, <<"run", 0>>, TRUE)
                 ELSE procs
       IN  procs' = IF current_process = 0 THEN ps
                    ELSE Signalled(ps, current_process, SIGTERM, <<"interrupt", 0>>, dies)
    /\ frames' = SetTop([Top EXCEPT !.ret = Value(FALSE, None)])
    /\ mainpc' = "fin_check"
    /\ events' = events \cup {"interrupt"}
    /\ UNCHANGED << config, current_process, process_timer, timers, req, result, term,
                    proposals, tx, wf >>

\* lines 186-188: return False, str(e)
Except ==
    /\ mainpc = "except"
    /\ frames' = SetTop([Top EXCEPT !.ret = Value(FALSE, Some(Top.exc))])
    /\ mainpc' = "fin_check"
    /\ UNCHANGED << config, current_process, process_timer, procs, timers, req, result,
                    term, events, proposals, tx, wf >>

\* line 192, first operand: "if current_process"
FinallyCheck ==
    /\ mainpc = "fin_check"
    /\ mainpc' = IF current_process = 0 THEN "fin_timer" ELSE "fin_poll"
    /\ UNCHANGED << config, current_process, process_timer, procs, timers, frames, req,
                    result, term, events, proposals, tx, wf >>

\* lines 192-197: current_process.poll(), terminate() if it still runs, and
\* current_process = None. A handle cleared since the first operand was read
\* makes poll() raise, and the exception leaves the finally block.
FinallyPoll(dies) ==
    /\ mainpc = "fin_poll"
    /\ IF current_process = 0
       THEN Escape("AttributeError: 'NoneType' object has no attribute 'poll'")
            /\ UNCHANGED << procs, current_process >>
       ELSE /\ procs' = Signalled(procs, current_process, SIGTERM, <<"finally", 0>>, dies)
            /\ current_process' = 0
            /\ mainpc' = "fin_timer"
            /\ UNCHANGED << frames, result >>
    /\ UNCHANGED << config, process_timer, timers, req, term, events, proposals, tx, wf >>

\* lines 198-200 and the return: process_timer.cancel() if process_timer is set
FinallyTimer ==
    /\ mainpc = "fin_timer"
    /\ timers' = IF process_timer # 0 /\ timers[process_timer].state = "pending"
                 THEN [timers EXCEPT ![process_timer] = Spent("cancelled")]
                 ELSE timers
    /\ process_timer' = 0
    /\ procs' = Forget(procs, Top.child)
    /\ ReturnTo(Top.ret)
    /\ UNCHANGED << config, current_process, req, term, events, proposals, tx, wf >>

\* a running child exits by itself
ProcExit(p, o) ==
    /\ p \in 1..Len(procs)
    /\ Alive(p)
    /\ ~procs[p].blocked
    /\ procs' = [procs EXCEPT ![p] = [@ EXCEPT !.state = "exited", !.rc = o.rc,
                                                !.out = o.out, !.err = o.err]]
    /\ UNCHANGED << config, current_process, process_timer, timers, frames, mainpc, req,
                    result, term, events, proposals, tx, wf >>

\* a running captured child writes more to stderr than the pipe holds while
\* nobody reads it (stderr is read at line 127, after stdout's end-of-file and
\* wait()): its write() blocks until the pipe is drained
ProcBlocks(p) ==
    /\ p \in 1..Len(procs)
    /\ Alive(p)
    /\ procs[p].mode = "captured"
    /\ ~procs[p].blocked
    /\ ~(mainpc = "stderr" /\ current_process = p)
    /\ procs' = [procs EXCEPT ![p].blocked = TRUE]
    /\ UNCHANGED << config, current_process, process_timer, timers, frames, mainpc, req,
                    result, term, events, proposals, tx, wf >>

(***************************************************************************)
(* core/executor.py: kill_process on the timer's thread.                   *)
(***************************************************************************)
\* the timer fires: line 18, "if current_process and current_process.poll() is None"
Fire(t) ==
    /\ t \in 1..Len(timers)
    /\ timers[t].state = "pending"
    /\ timers' = IF current_process # 0 /\ Alive(current_process)
                 THEN [timers EXCEPT ![t].state = "k_term"]
                 ELSE [timers EXCEPT ![t] = Spent("done")]
    /\ UNCHANGED << config, current_process, process_timer, procs, frames, mainpc, req,
                    result, term, events, proposals, tx, wf >>

\* line 20: current_process.terminate() (an AttributeError is swallowed)
KillTerm(t, dies) ==
    /\ t \in 1..Len(timers)
    /\ timers[t].state = "k_term"
    /\ IF current_process = 0
       THEN /\ timers' = [timers EXCEPT ![t].state = "k_clear"]
            /\ UNCHANGED procs
       ELSE /\ procs' = Signalled(procs, current_process, SIGTERM, <<"watchdog", t>>, dies)
            /\ timers' = [timers EXCEPT ![t].state = "k_poll"]
    /\ UNCHANGED << config, current_process, process_timer, frames, mainpc, req, result,
                    term, events, proposals, tx, wf >>

\* lines 21-23: after the 0.5 s sleep, kill() if poll() is still None
KillPoll(t) ==
    /\ t \in 1..Len(timers)
    /\ timers[t].state = "k_poll"
    /\ procs' = IF current_process = 0 THEN procs
                ELSE Signalled(procs, current_process, SIGKILL, <<"watchdog", t>>, TRUE)
    /\ timers' = [timers EXCEPT ![t].state = "k_clear"]
    /\ UNCHANGED << config, current_process, process_timer, frames, mainpc, req, result,
                    term, events, proposals, tx, wf >>

\* lines 25-29: the message "Process killed after {timeout}s timeout." with
\* config.get("timeout_seconds", 20), kept in reported, and current_process = None
KillClear(t) ==
    /\ t \in 1..Len(timers)
    /\ timers[t].state = "k_clear"
    /\ current_process' = 0
    /\ timers' = [timers EXCEPT ![t] = [Spent("done") EXCEPT !.reported = config.timeout_seconds]]
    /\ UNCHANGED << config, process_timer, procs, frames, mainpc, req, result, term,
                    events, proposals, tx, wf >>

(***************************************************************************)
(* core/executor.py: terminate_process.                                    *)
(***************************************************************************)
\* line 205, first operand: "if current_process"; without a handle the
\* "No running process to terminate." message. The position remembers whether
\* the handle's child was still running when the call was made.
TerminateCall ==
    /\ term = "idle"
    /\ term' = IF current_process = 0 THEN "idle"
               ELSE IF Alive(current_process) THEN "t_check" ELSE "t_check_gone"
    /\ UNCHANGED << config, current_process, process_timer, procs, timers, frames, mainpc,
                    req, result, events, proposals, tx, wf >>

\* line 205, second operand: "current_process.poll() is None". The global is
\* read again: cleared in between, poll() raises AttributeError out of
\* terminate_process (the try starts at line 206).
TermCheck ==
    /\ term \in {"t_check", "t_check_gone"}
    /\ term' = IF current_process = 0 THEN "raised"
               ELSE IF Alive(current_process) THEN "t_term" ELSE "idle"
    /\ UNCHANGED << config, current_process, process_timer, procs, timers, frames, mainpc,
                    req, result, events, proposals, tx, wf >>

\* main.py line 50: the "terminate" query of the REPL loop
ReplTerminate == mainpc = "idle" /\ TerminateCall

\* terminate_process called from outside the run loop, as the package exports it
ExternalTerminate == mainpc # "idle" /\ TerminateCall

\* line 207: current_process.terminate() (an exception is reported)
TermTerm(dies) ==
    /\ term = "t_term"
    /\ IF current_process = 0
       THEN term' = "t_clear" /\ UNCHANGED procs
       ELSE /\ procs' = Signalled(procs, current_process, SIGTERM, <<"terminate", 0>>, dies)
            /\ term' = "t_poll"
    /\ UNCHANGED << config, current_process, process_timer, timers, frames, mainpc, req,
                    result, events, proposals, tx, wf >>

\* lines 208-211: after the 0.5 s sleep, kill() if poll() is still None
TermPoll ==
    /\ term = "t_poll"
    /\ procs' = IF current_process = 0 THEN procs
                ELSE Signalled(procs, current_process, SIGKILL, <<"terminate", 0>>, TRUE)
    /\ term' = "t_clear"
    /\ UNCHANGED << config, current_process, process_timer, timers, frames, mainpc, req,
                    result, events, proposals, tx, wf >>

\* line 214: current_process = None
TermClear ==
    /\ term = "t_clear"
    /\ current_process' = 0
    /\ term' = "idle"
    /\ UNCHANGED << config, process_timer, procs, timers, frames, mainpc, req, result,
                    events, proposals, tx, wf >>

\* one request through the REPL loop, execute_command and the watchdog timers
RunNext ==
    \/ \E reply \in REPLIES : Ask(reply)
    \/ \E answer \in ANSWERS : Gate(answer)
    \/ Post
    \/ Enter
    \/ Spawn
    \/ SpawnFails
    \/ InteractiveDone
    \/ Arm
    \/ StreamBegin
    \/ ReadEOF
    \/ Wait
    \/ ReadStderr
    \/ CheckReturnCode
    \/ \E answer \in ANSWERS : AnswerFix(answer)
    \/ Except
    \/ FinallyCheck
    \/ \E dies \in BOOLEAN : FinallyPoll(dies)
    \/ FinallyTimer
    \/ \E p \in 1..MaxProcs, o \in OUTCOMES : ProcExit(p, o)
    \/ \E t \in 1..MaxProcs : Fire(t)
    \/ \E t \in 1..MaxProcs, dies \in BOOLEAN : KillTerm(t, dies)
    \/ \E t \in 1..MaxProcs : KillPoll(t)
    \/ \E t \in 1..MaxProcs : KillClear(t)

\* the interactive program: main.py on a terminal
Next ==
    \/ RunNext
    \/ \E reply \in REPLIES : Bang(reply)
    \/ \E b \in BOOLEAN : SetDryRun(b)
    \/ \E dies \in BOOLEAN : Interrupt(dies)
    \/ ReplTerminate

Spec == Init /\ [][Next]_vars

\* the engine driven without a terminal, with a second thread that calls
\* terminate_process while a command runs
ApiNext ==
    \/ RunNext
    \/ ExternalTerminate
    \/ TermCheck
    \/ \E dies \in BOOLEAN : TermTerm(dies)
    \/ TermPoll
    \/ TermClear

ApiSpec == Init /\ [][ApiNext]_vars

\* the engine with children that write to stderr without bound
PipeNext ==
    \/ RunNext
    \/ \E p \in 1..MaxProcs : ProcBlocks(p)

PipeSpec == Init /\ [][PipeNext]_vars

(***************************************************************************)
(* The pure functions of utils/, applied to command texts.                 *)
(***************************************************************************)
\* consecutive applications of sanitize_command to one text
MaxPasses == 2
\* classifications of one text by classify_command_timeout
MaxClassifications == 2

\* calls of detect_and_fix_error for one text
MaxFixes == 1

\* what a shell writes for a command it cannot parse, and its exit code
SHELL_ERRORS == { "sh: 1: Syntax error: Unterminated quoted string", "zsh: unmatched '" }

SHELL_EXIT_CODES == { 2 }

\* calls of ErrorAnalyzer.analyze_error
MaxAnalyses == 2

\* the number of records in ~/.prometheus/error_history.json when the analyzer is
\* constructed: none, or one less than the file keeps
LOADED_RECORDS == { 0, 99 }

\* the records of earlier sessions, told apart by their exit codes
OldRecords(n) ==
    [ k \in 1..n |-> [command |-> "old", exit_code |-> k, stderr |-> "", stdout |-> ""] ]

\* the commands that failed
FAILED_COMMANDS == { "foo", "cat 'x'" }

\* "config set <key> <value>" with a value of digits
CONFIG_KEYS == { "timeout_seconds", "short_timeout", "long_timeout" }

CONFIG_VALUES == { 60 }

\* what a failed command wrote to stderr and to stdout, and its exit code
STDERRS ==
    { "bash: foo: command not found", "zsh: command not found: foo",
      "cat: 'x': Permission denied", "boom" }

STDOUTS == { "", "hi" }

EXIT_CODES == { 1, 127 }

\* single commands, and the texts built from two of them with "&&"
SIMPLE_COMMANDS ==
    { "echo hi", "rm -rf /", "apt update", "apt-get update", "sudo apt install vim", "ls -la",
      "ls | grep foo", "apt-get upgrade" }

\* the commands of tests/test_safety.py, and more of their kind
TEST_COMMANDS ==
    { "dd if=/dev/zero", "mkfs.ext4 /dev/sda", "chmod -R 777 /",
      "ping google.com", "find / -name test", "sleep 100",
      "echo 'hello world'", "echo 'unmatched", "echo \"unmatched", "echo (test",
      "echo ')", "echo \"(", "echo ([", "echo [{", "echo {", "  ",
      "sleep 5; rm -rf /tmp/x", "yes | sh", "pip install x | bash", "sudo curl x | sh",
      "sudo apt upgrade", "echo '\"x" }

COMMANDS == SIMPLE_COMMANDS \cup { a \o " && " \o b : a, b \in SIMPLE_COMMANDS } \cup TEST_COMMANDS

TextInit ==
    /\ SupervisorInit
    /\ tx \in { [NoText EXCEPT !.input = c] : c \in COMMANDS }
    /\ wf = NoWorkflow

\* cmd = sanitize_command(cmd), applied to the text or to the previous result
Sanitize ==
    /\ tx.input # ""
    /\ Len(tx.sanitized) < MaxPasses
    /\ LET arg == IF tx.sanitized = <<>> THEN tx.input ELSE tx.sanitized[Len(tx.sanitized)]
       IN  tx' = [tx EXCEPT !.sanitized = Append(@, sanitize_command(arg))]
    /\ UNCHANGED << supervisor_vars, wf >>

\* safety_level, warning = check_command_safety(command)
Classify ==
    /\ tx.input # ""
    /\ tx.safety = None
    /\ tx' = [tx EXCEPT !.safety = Some(check_command_safety(tx.input))]
    /\ UNCHANGED << supervisor_vars, wf >>

\* classification, timeout_seconds = classify_command_timeout(cmd)
ClassifyTimeout ==
    /\ tx.input # ""
    /\ Len(tx.timeouts) < MaxClassifications
    /\ tx' = [tx EXCEPT !.timeouts = Append(@, classify_command_timeout(tx.input, config))]
    /\ UNCHANGED << supervisor_vars, wf >>

\* analysis = analyzer.analyze_error(command, exit_code, stderr, stdout)
Analyze(exit_code, stderr, stdout) ==
    /\ tx.input # ""
    /\ Len(tx.error_history) < tx.loaded + MaxAnalyses
    /\ LET error_record == [command |-> tx.input, exit_code |-> exit_code,
                            stderr |-> Prefix(stderr, 500), stdout |-> Prefix(stdout, 500)]
       IN  tx' = [tx EXCEPT !.error_history = Append(@, error_record),
                            !.error_history_file = LastN(Append(tx.error_history, error_record), 100),
                            !.analysis = Some(analyze_error(tx.input, exit_code, stderr, stdout))]
    /\ UNCHANGED << supervisor_vars, wf >>

\* "config set key value": config.set(key, value); config.save()
ConfigSet(key, value) ==
    /\ config' = [config EXCEPT ![key] = value]
    /\ UNCHANGED << current_process, process_timer, procs, timers, frames, mainpc, req, result,
                    term, events, proposals, tx, wf >>

\* is_valid, error = validate_command(command)
Validate ==
    /\ tx.input # ""
    /\ tx.valid = None
    /\ tx' = [tx EXCEPT !.valid = Some(validate_command(tx.input))]
    /\ UNCHANGED << supervisor_vars, wf >>

\* fix_result = detect_and_fix_error(cmd, stderr_output, return_code), for a
\* command the shell rejected
DetectFix(error_output, exit_code) ==
    /\ tx.input # ""
    /\ Len(tx.fixes) < MaxFixes
    /\ tx' = [tx EXCEPT !.fixes = Append(@, detect_and_fix_error(tx.input, error_output, exit_code))]
    /\ UNCHANGED << supervisor_vars, wf >>

TextNext ==
    \/ Sanitize
    \/ Classify
    \/ ClassifyTimeout
    \/ Validate
    \/ \E error_output \in SHELL_ERRORS, exit_code \in SHELL_EXIT_CODES :
           DetectFix(error_output, exit_code)

TextSpec == TextInit /\ [][TextNext]_vars

(***************************************************************************)
(* classify_command_timeout under "config set".                            *)
(***************************************************************************)
ConfigNext ==
    \/ ClassifyTimeout
    \/ \E key \in CONFIG_KEYS, value \in CONFIG_VALUES : ConfigSet(key, value)

ConfigSpec == TextInit /\ [][ConfigNext]_vars

(***************************************************************************)
(* ErrorAnalyzer.analyze_error over the failures of a command.             *)
(***************************************************************************)
\* self.error_history = self._load_error_history()
AnalyzerInit ==
    /\ SupervisorInit
    /\ tx \in { [NoText EXCEPT !.input = c, !.loaded = n, !.error_history = OldRecords(n),
                                !.error_history_file = OldRecords(n)] :
                  c \in FAILED_COMMANDS, n \in LOADED_RECORDS }
    /\ wf = NoWorkflow

AnalyzerNext ==
    \E exit_code \in EXIT_CODES, stderr \in STDERRS, stdout \in STDOUTS :
        Analyze(exit_code, stderr, stdout)

AnalyzerSpec == AnalyzerInit /\ [][AnalyzerNext]_vars

(***************************************************************************)
(* utils/workflows.py: WorkflowExecutor.execute_workflow.                  *)
(***************************************************************************)
\* steps of a workflow
MaxSteps == 3

\* StepCondition
ALWAYS == "always"
ON_SUCCESS == "on_success"
ON_FAILURE == "on_failure"

\* WorkflowStep(name, command, condition, timeout, retry, continue_on_error),
\* named by its place in the list
RETRIES == { 0, 1 }

WorkflowSteps ==
    [ condition : {ALWAYS, ON_SUCCESS, ON_FAILURE}, retry : RETRIES,
      continue_on_error : BOOLEAN ]

WORKFLOWS ==
    UNION { [ 1..n -> WorkflowSteps ] : n \in 0..MaxSteps }

_check_condition(condition, previous_success) ==
    IF condition = ALWAYS THEN TRUE
    ELSE IF condition = ON_SUCCESS THEN previous_success
    ELSE IF condition = ON_FAILURE THEN ~previous_success
    ELSE TRUE

\* the result of _execute_step for a step whose attempts end as attempts says (one
\* success flag per attempt that executor_func would make): the attempts stop at
\* the first success, and every attempt of a dry run succeeds
_execute_step(name, step, attempts, dry_run) ==
    LET ok == { a \in 1..(step.retry + 1) : dry_run \/ attempts[a] }
        made == IF ok = {} THEN step.retry + 1 ELSE CHOOSE a \in ok : \A b \in ok : a <= b
    IN  [name |-> name, skipped |-> FALSE, attempts |-> made, success |-> ok # {}]

WorkflowInit ==
    /\ SupervisorInit
    /\ tx = NoText
    /\ wf \in { [NoWorkflow EXCEPT !.steps = steps, !.dry_run = dry_run] :
                  steps \in WORKFLOWS, dry_run \in BOOLEAN }

\* one pass of "for step in workflow.steps"
WorkflowStep(attempts) ==
    /\ ~wf.returned
    /\ wf.next <= Len(wf.steps)
    /\ LET step == wf.steps[wf.next]
           step_result == _execute_step(wf.next, step, attempts, wf.dry_run)
       IN  IF ~_check_condition(step.condition, wf.previous_success)
           THEN wf' = [wf EXCEPT !.results = Append(@, [name |-> wf.next, skipped |-> TRUE,
                                                        attempts |-> 0, success |-> FALSE]),
                                 !.next = @ + 1]
           ELSE IF ~step_result.success /\ ~step.continue_on_error
           THEN wf' = [wf EXCEPT !.results = Append(@, step_result),
                                 !.previous_success = FALSE,
                                 !.success = FALSE,
                                 !.next = Len(wf.steps) + 1]
           ELSE wf' = [wf EXCEPT !.results = Append(@, step_result),
                                 !.previous_success = step_result.success,
                                 !.next = @ + 1]
    /\ UNCHANGED << supervisor_vars, tx >>

\* after the loop: the statistics of the workflow, and return results
WorkflowReturn ==
    /\ ~wf.returned
    /\ wf.next > Len(wf.steps)
    /\ wf' = [wf EXCEPT !.returned = TRUE, !.run_count = @ + 1]
    /\ UNCHANGED << supervisor_vars, tx >>

WorkflowNext ==
    \/ \E attempts \in [ 1..2 -> BOOLEAN ] : WorkflowStep(attempts)
    \/ WorkflowReturn

WorkflowSpec == WorkflowInit /\ [][WorkflowNext]_vars

(***************************************************************************)
(* Properties of the interactive program (Spec).                           *)
(***************************************************************************)
\* C1: recovery is bounded to depth 1: for one original failure (one request
\* of the REPL loop) at most one fix is ever proposed, so a fixed command that
\* fails again gets no second proposal.
C1_RecoveryBoundedToOne == proposals <= 1

\* C2: whenever execute_command has returned to the REPL loop, on any path, no
\* watchdog timer armed by the call or by a nested call is still pending and
\* the current-process handle is cleared.
C2_ReleasedOnReturn ==
    frames = <<>> =>
        /\ current_process = 0
        /\ \A t \in 1..Len(timers) : timers[t].state # "pending"

\* C4: when execute_command has returned and the REPL loop can take a new
\* command, every child it spawned has exited, also after an interrupt or an
\* exception with a child that ignores the graceful signal.
C4_ChildExitedOnReturn ==
    mainpc = "idle" => \A p \in 1..Len(procs) : ~Alive(p)

\* the child died of a signal that the watchdog of timer t sent
KilledByWatchdog(p) ==
    /\ procs[p].state = "exited"
    /\ \E t \in 1..Len(timers) : << <<"watchdog", t>>, 0 - procs[p].rc >> \in procs[p].signals

\* C5: the result execute_command returns for a captured child that the
\* timeout watchdog terminated is marked as terminated: it is not the
\* (False, captured output) pair that an ordinary non-zero exit returns.
C5_TimeoutDistinguishable ==
    ( /\ mainpc \in {"fin_check", "fin_poll", "fin_timer"}
      /\ Top.child # 0
      /\ KilledByWatchdog(Top.child) )
        => Top.ret # Value(FALSE, Some(Join(Top.output_lines)))

\* C6: validation fails closed: no child is ever spawned for a command that
\* validate_command rejects (unbalanced quotes or brackets).
C6_OnlyValidCommandsSpawned ==
    \A p \in 1..Len(procs) : procs[p].cmd # "" => validate_command(procs[p].cmd)[1]

\* C9: the fixed command runs only after the operator confirms, and the
\* prompt defaults to reject: no fixed command is running on an empty answer.
C9_FixNeedsExplicitYes ==
    \A i \in 2..Len(frames) : frames[i].child # 0 => frames[i].confirm # ""

\* C20: a watchdog timer only ever signals the child of the execute_command call
\* that armed it: every step in which kill_process, run by timer t, sends SIGTERM
\* or SIGKILL to a child sends it to the child the timer was armed for.
C20_WatchdogSignalsOwnChild ==
    [][ \A p \in 1..Len(procs), t \in 1..Len(timers), sig \in {SIGTERM, SIGKILL} :
          ( /\ << <<"watchdog", t>>, sig >> \notin procs[p].signals
            /\ << <<"watchdog", t>>, sig >> \in procs'[p].signals )
              => timers[t].child = p ]_vars

\* C21: when detect_and_fix_error yields no fixed command (None, or an explanation
\* paired with no command) the recovery only presents a diagnosis: the prompt to
\* run a fix is never shown for it and execute_command is never called again.
C21_NoFixNoRerun ==
    /\ mainpc = "askfix" => Top.fix[1][1] # None
    /\ \A i \in 1..Len(frames) : frames[i].raw # None

\* C22: while execute_command streams the output of its child, waits for it or
\* collects its exit status, the current_process handle it dereferences is not
\* cleared by the watchdog thread, so the call never takes the internal-error path
\* with an AttributeError.
C22_HandleHeldWhileInUse ==
    /\ mainpc \in {"stream", "read", "wait", "stderr", "rc"} => current_process # 0
    /\ mainpc = "except" => ~StartsWith(Top.exc, "AttributeError")

\* C23: for every execution that is not a dry run, interactive as well as
\* captured, a watchdog with the classified timeout is armed while the child runs:
\* once the statement after the spawn is reached, a running child of an activation
\* has a live timer armed for it with the activation's timeout.
C23_WatchdogArmedWhileChildRuns ==
    \A i \in 1..Len(frames) :
        ( /\ frames[i].child # 0
          /\ Alive(frames[i].child)
          /\ ~(i = Len(frames) /\ mainpc = "arm") )
            => \E t \in 1..Len(timers) :
                  /\ timers[t].child = frames[i].child
                  /\ timers[t].timeout = frames[i].timeout

\* C25: when the watchdog has killed a command, the timeout reported to the
\* operator is the timeout that was enforced for it, the duration the timer was
\* armed with, in every tier.
C25_ReportedTimeoutIsEnforced ==
    [][ \A t \in 1..Len(timers) :
          (timers[t].state = "k_clear" /\ timers'[t].state = "done")
              => timers'[t].reported = timers[t].timeout ]_vars

\* C10: after the operator interrupted the command no error analysis is
\* attempted for it, neither inside execute_command nor by the calling loop.
C10_NoAnalysisAfterInterrupt ==
    "interrupt" \in events => events \cap {"analysis", "loop_analysis"} = {}

\* C11: a command classified Dangerous is executed only after an explicit
\* yes, a Caution or LongRunning command only after the proceed prompt was
\* accepted, a Safe command without a prompt, on every path that executes a
\* command the language model produced.
C11_ConfirmedBeforeExecution ==
    frames # <<>> =>
        /\ req.safety_level = DANGEROUS => frames[1].confirm = "y"
        /\ req.safety_level \in {CAUTION, LONG_RUNNING} => frames[1].confirm \in {"y", ""}
        /\ req.safety_level = SAFE => frames[1].confirm = "none"

\* C12: an execute_command activation with dry_run set never spawns a child
\* and never arms a watchdog (it ends in the prologue), and what it returns
\* is success with no captured output.
C12_DryRunSpawnsNothing ==
    /\ \A i \in 1..Len(frames) :
          frames[i].dry_run =>
              /\ frames[i].child = 0
              /\ frames[i].timer = 0
              /\ i = Len(frames) /\ mainpc = "enter"
    /\ (mainpc = "post" /\ req.via = "run" /\ req.dry_run) => result = Value(TRUE, None)

\* a dangerous command went through the loop in dry-run mode and came back
C12_DryRunReturned ==
    /\ mainpc = "post"
    /\ req.dry_run
    /\ req.safety_level = DANGEROUS
    /\ result = Value(TRUE, None)
    /\ procs = <<>>
    /\ timers = <<>>

(***************************************************************************)
(* Properties with a concurrent terminate_process (ApiSpec).               *)
(***************************************************************************)
\* C3: terminate_process and the timeout watchdog are serialized: a child is
\* never signalled by both, one of the two finds the process already gone.
C3_SignalledByOnePath ==
    \A p \in 1..Len(procs) :
        ~ \E s1, s2 \in procs[p].signals : s1[1][1] = "watchdog" /\ s2[1][1] = "terminate"

\* C13: terminate_process called when no child is running (no handle, or a
\* handle whose process has exited) is a no-op: the call raises no error,
\* sends no signal and changes nothing of the supervisor state.
C13_TerminateIdleIsNoOp ==
    [][ term = "t_check_gone" =>
            /\ term' # "raised"
            /\ term' # "t_check_gone" =>
                    UNCHANGED << current_process, process_timer, procs, timers, frames >>
      ]_vars

(***************************************************************************)
(* Properties of the pipes of a captured child (PipeSpec).                 *)
(***************************************************************************)
\* C27: in captured mode the supervisor never leaves its child blocked writing to
\* a full stderr pipe while it is itself blocked reading the child's stdout, so a
\* child that exits once its output is consumed runs to completion.
C27_NoPipeDeadlock ==
    ~( /\ mainpc = "read"
       /\ Alive(Top.child)
       /\ procs[Top.child].blocked )

C30_OnFailureStepRuns ==
    /\ \A k \in 1..Len(wf.results) : wf.results[k].name = k
    /\ wf.returned =>
          \A k \in 1..Len(wf.steps) :
              LET ran == { j \in 1..(k - 1) : j <= Len(wf.results) /\ ~wf.results[j].skipped }
                  last == CHOOSE j \in ran : \A i \in ran : i <= j
              IN  (wf.steps[k].condition = ON_FAILURE /\ ran # {}) =>
                      IF wf.results[last].success
                      THEN k <= Len(wf.results) /\ wf.results[k].skipped
                      ELSE k <= Len(wf.results) /\ ~wf.results[k].skipped

(***************************************************************************)
(* Properties of the pure functions (TextSpec).                            *)
(***************************************************************************)
\* C7: a command whose text contains a dangerous keyword is classified
\* Dangerous whatever surrounds the keyword, also behind an always-safe first
\* word as in "echo hi && rm -rf /".
C7_DangerousKeywordIsDangerous ==
    ( /\ tx.safety # None
      /\ \E k \in 1..Len(DANGEROUS_KEYWORDS) : Contains(tx.input, DANGEROUS_KEYWORDS[k]) )
        => tx.safety[1][1] = DANGEROUS

\* the text contains one of the classifier's long-running commands or keywords
HasLongKeyword(c) ==
    \E k \in LONG_RUNNING_COMMANDS \cup LONG_OPERATION_KEYWORDS : Contains(Lower(c), k)

\* the text is composed with a pipe, "&&" or ";"
IsComposed(c) == Contains(c, "|") \/ Contains(c, "&&") \/ Contains(c, ";")

\* C14: classify_command_timeout gives tier long to a command with a
\* long-running keyword, tier quick to a single quick command, and tier normal
\* to a command composed with |, && or ; that has no long-running keyword,
\* also when its first word is a quick command ("ls | grep foo").
C14_TimeoutTiers ==
    \A i \in 1..Len(tx.timeouts) :
        LET tier == tx.timeouts[i][1]
        IN  /\ HasLongKeyword(tx.input) => tier = "long"
            /\ ( /\ ~HasLongKeyword(tx.input)
                  /\ ~IsComposed(tx.input)
                  /\ Lower(FirstWord(tx.input)) \in QUICK_COMMANDS ) => tier = "quick"
            /\ (~HasLongKeyword(tx.input) /\ IsComposed(tx.input)) => tier = "normal"

\* C15: whenever the stderr of a failure that exited with 127 reports "command not
\* found", analyze_error returns the category command_not_found and at least one of
\* its suggestions mentions installation or PATH, whatever else stderr and stdout hold.
C15_CommandNotFoundCategory ==
    ( /\ tx.analysis # None
      /\ tx.error_history[Len(tx.error_history)].exit_code = 127
      /\ Contains(tx.error_history[Len(tx.error_history)].stderr, "command not found") )
        => /\ tx.analysis[1].error_type = "command_not_found"
           /\ \E k \in 1..Len(tx.analysis[1].suggestions) :
                 \/ Contains(Lower(tx.analysis[1].suggestions[k]), "install")
                 \/ Contains(tx.analysis[1].suggestions[k], "PATH")

C17_ListedKeywordIsDangerous ==
    ( /\ tx.safety # None
      /\ \E k \in 1..Len(DANGEROUS_KEYWORDS) : Contains(tx.input, DANGEROUS_KEYWORDS[k])
      /\ Lower(FirstWord(tx.input)) \notin SAFE_COMMANDS )
        => /\ tx.safety[1][1] = DANGEROUS
           /\ tx.safety[1][2] # None

\* C18: a command that contains a long-running keyword and no dangerous keyword
\* is classified LongRunning with a warning.
C18_LongRunningKeywordIsLongRunning ==
    ( /\ tx.safety # None
      /\ \E k \in 1..Len(LONG_RUNNING_KEYWORDS) : Contains(Lower(tx.input), LONG_RUNNING_KEYWORDS[k])
      /\ \A k \in 1..Len(DANGEROUS_KEYWORDS) : ~Contains(Lower(tx.input), Lower(DANGEROUS_KEYWORDS[k])) )
        => /\ tx.safety[1][1] = LONG_RUNNING
           /\ tx.safety[1][2] # None

\* the pairings of validate_command in the order of its checks
PAIRINGS ==
    << [name |-> "single quote", open |-> "'", close |-> "'"],
       [name |-> "double quote", open |-> "\"", close |-> "\""],
       [name |-> "parentheses", open |-> "(", close |-> ")"],
       [name |-> "brackets", open |-> "[", close |-> "]"],
       [name |-> "braces", open |-> "{", close |-> "}"] >>

\* pairing k is unbalanced in c: an odd number of quotes, or unequal counts of the
\* opening and the closing character
Unbalanced(k, c) ==
    IF PAIRINGS[k].open = PAIRINGS[k].close
    THEN Count(c, PAIRINGS[k].open) % 2 # 0
    ELSE Count(c, PAIRINGS[k].open) # Count(c, PAIRINGS[k].close)

\* validate_command's answer is that of the balance of c: valid exactly when no
\* pairing is unbalanced, otherwise an error that names the first unbalanced pairing
BalanceAnswer(v, c) ==
    /\ v[1] <=> \A k \in 1..Len(PAIRINGS) : ~Unbalanced(k, c)
    /\ v[1] => v[2] = None
    /\ \A k \in 1..Len(PAIRINGS) :
          (Unbalanced(k, c) /\ \A j \in 1..(k - 1) : ~Unbalanced(j, c))
              => /\ v[2] # None
                 /\ Contains(Lower(v[2][1]), PAIRINGS[k].name)

\* C19, as stated: validate_command accepts a non-empty command exactly when its
\* quotes and brackets are balanced, and otherwise names the first unbalanced pairing
\* (single quote, double quote, parentheses, brackets, braces).
C19_ValidateNonEmpty ==
    (tx.valid # None /\ tx.input # "") => BalanceAnswer(tx.valid[1], tx.input)

\* C19, amended: the same for every command that is not blank; a command of
\* whitespace only is rejected as an empty command.
C19_ValidateNonBlank ==
    tx.valid # None =>
        IF Strip(tx.input) = "" THEN tx.valid[1] = <<FALSE, Some("Empty command")>>
        ELSE BalanceAnswer(tx.valid[1], tx.input)

\* a command with an odd number of single quotes and unequal parentheses was validated
C19_TwoPairingsUnbalanced ==
    /\ tx.valid # None
    /\ Unbalanced(1, tx.input)
    /\ Unbalanced(3, tx.input)
    /\ tx.valid[1] = <<FALSE, Some("Unmatched single quote")>>

\* C24: a command that matches a Dangerous check (a dangerous keyword or the
\* pipe-to-shell pattern) and also a LongRunning or Caution check is classified
\* Dangerous, the higher severity. (Commands whose first word is always-safe are
\* left aside: they are classified before any of these checks.)
C24_DangerousOutranksOthers ==
    LET lower == Strip(Lower(tx.input))
        dangerous == FirstKeyword(DANGEROUS_KEYWORDS, lower) # 0 \/ PipesToShell(lower)
        other == \/ FirstKeyword(LONG_RUNNING_KEYWORDS, lower) # 0
                 \/ FirstKeyword(MODIFY_KEYWORDS, lower) # 0
                 \/ StartsWith(lower, "sudo")
    IN  ( /\ tx.safety # None
          /\ FirstWord(lower) \notin SAFE_COMMANDS
          /\ dangerous /\ other )
            => tx.safety[1][1] = DANGEROUS

\* C26: after sanitize_command a command with an apt update or apt upgrade
\* invocation names apt-get for it and carries the DEBIAN_FRONTEND=noninteractive
\* marker (behind a leading sudo, otherwise at the start) and a -y flag.
C26_AptUpdateUpgradeUnattended ==
    ( /\ tx.sanitized # <<>>
      /\ \E sub \in {"update", "upgrade"} :
            \/ StartsWith(tx.input, "apt " \o sub)
            \/ Contains(tx.input, " apt " \o sub) )
        => LET s == tx.sanitized[1]
           IN  /\ Contains(s, "apt-get update") \/ Contains(s, "apt-get upgrade")
               /\ IF StartsWith(Strip(tx.input), "sudo")
                  THEN StartsWith(Strip(s), "sudo DEBIAN_FRONTEND=noninteractive ")
                  ELSE StartsWith(s, "DEBIAN_FRONTEND=noninteractive ")
               /\ Contains(s, " -y")

\* C29: a fixed command produced by the unmatched-quote rule of
\* detect_and_fix_error passes the quote checks of validate_command: its numbers
\* of single quotes and of double quotes are both even.
C29_QuoteFixIsBalanced ==
    \A k \in 1..Len(tx.fixes) :
        LET fix == tx.fixes[k]
        IN  ( /\ fix # None
              /\ fix[1][1] # None
              /\ StartsWith(fix[1][2], "Fixed: Added missing") )
                => /\ Count(fix[1][1][1], "'") % 2 = 0
                   /\ Count(fix[1][1][1], "\"") % 2 = 0

\* C8: sanitize_command is idempotent: sanitizing a sanitized command changes
\* nothing, also for commands that mention apt or apt-get.
C8_SanitizeIdempotent ==
    Len(tx.sanitized) >= 2 => tx.sanitized[2] = tx.sanitized[1]

====
